---- MODULE Spec2Model ----
(***************************************************************************)
(* PurePod: a manager (FastAPI + SQLModel on PostgreSQL) that owns feeds   *)
(* and episodes, a Celery channel, and a worker that downloads, processes  *)
(* and uploads an episode back to the manager.                             *)
(*                                                                         *)
(* Spec          the episode pipeline: operator requests, the work         *)
(*               channel, the worker task and the upload callback, at the  *)
(*               granularity of database statements (the database is a     *)
(*               shared PostgreSQL server, so requests of different        *)
(*               manager processes interleave between their statements).   *)
(* SpecBroadcast the ConnectionManager of one manager process, at the      *)
(*               granularity of its awaits.                                *)
(***************************************************************************)
EXTENDS Integers, Sequences, FiniteSets, TLC

\* ------------------------------------------------------------------ bounds
MaxEpisodes == 1
MaxClock == 1
MaxIds == 2
MaxSessions == 1
MaxUploads == 1
MaxObservers == 3
MaxClientUploads == 2
MaxFeeds == 2
MaxRssEpisodes == 3
MaxPasses == 2
MaxGuids == 2
MaxOverlap == 2

\* ------------------------------------------------------- program constants
max_retries == 3

EpisodeIds == 1..MaxEpisodes
FeedId == 1
Sessions == 1..MaxSessions
Uploads == 1..MaxUploads
Observers == 1..MaxObservers

\* models.py: class EpisodeStatus.  The member names defined by the enum.
EpisodeStatus == {"DISCOVERED", "QUEUED", "PROCESSING", "CLEANED", "FAILED"}

\* Python's None for Optional[str] local_filename.
None == <<>>

VARIABLES
    MANAGER_BASE_URL, \* tasks.py line 13: the path of the manager's base url, from its environment
    passes,         \* ingestion passes in flight: slot -> state
    feeds,          \* committed rows of table feeds (set of feed ids)
    episodes,       \* committed rows of table episodes: id -> row
    rowlock,        \* episode id -> session holding its row lock (0: none)
    clock,          \* datetime.utcnow()
    qs,             \* queue_episodes requests in flight: session -> state
    channel,        \* Celery queue "audio_processing": set of task messages
    tasks,          \* task id -> [episode_id, executions, state, exc, reported]: every task sent
    worker,         \* the worker process (concurrency 1)
    temp_file,      \* TRUE iff the worker's temp file exists
    upl,            \* upload_cleaned_audio requests in flight
    files,          \* episode id -> number of writes of its artifact file
    last_event,     \* episode id -> last progress event handed to broadcast
    completed,      \* episode id -> number of "completed" events broadcast by the upload endpoint
    response,       \* status code of the last response of the operator API (0: none yet)
    active_connections, \* ConnectionManager.active_connections
    bc              \* a call of ConnectionManager.broadcast

vars == <<MANAGER_BASE_URL, passes, feeds, episodes, rowlock, clock, qs, channel, tasks, worker,
          temp_file, upl, files, last_event, completed, response,
          active_connections, bc>>

pipelineVars == <<MANAGER_BASE_URL, passes, feeds, episodes, rowlock, clock, qs, channel, tasks, worker,
                  temp_file, upl, files, last_event, completed, response>>

\* ------------------------------------------------------------- the database
\* models.py: class Episode.  A new row has status DISCOVERED and no
\* local_filename; audio_url is the item's enclosure URL, guid the item's guid
\* (the items of the feed's document are numbered, item e having guid e).
NewEpisode(e, now) ==
    [feed_id |-> FeedId, guid |-> e, status |-> "DISCOVERED", audio_url |-> <<"audio", e>>,
     local_filename |-> None, created_at |-> now, updated_at |-> now]

\* session.get(Episode, id) when the object is not in the session: a SELECT of
\* the committed row (READ COMMITTED); None when there is no such row.
Exists(e) == e \in DOMAIN episodes

UpdateNothing(row, loaded, new) == row

\* The UPDATE a flush emits for one object: only the attributes whose value
\* differs from the loaded one are written, onto the row as it is now.
UpdateRow(row, loaded, new) ==
    [c \in DOMAIN row |-> IF new[c] # loaded[c] THEN new[c] ELSE row[c]]

utcnow == clock

\* The message of a progress event (main.py 116-120, 164-168); NoEvent: none yet.
Event(progress, stage) == <<progress, stage>>
NoEvent == <<>>

\* Time passes.
Tick ==
    /\ clock < MaxClock
    /\ clock' = clock + 1
    /\ UNCHANGED <<MANAGER_BASE_URL, passes, feeds, episodes, rowlock, qs, channel, tasks, worker,
                   temp_file, upl, files, last_event, completed, response,
                   active_connections, bc>>

\* ------------------------------------------------------------ the dispatcher
\* tasks.py line 13: MANAGER_BASE_URL = os.getenv("MANAGER_BASE_URL",
\* "http://web:8000").  Urls are modelled by their path, a sequence of
\* segments: the default has the empty path; a deployment may set a base url
\* whose path is /api.
BaseUrls == {<<>>, <<"api">>}

\* main.py 69, 124, 525: the upload endpoint is registered on the router with
\* prefix /api, as POST /api/upload/{episode_id}.
UploadRoute(url) == Len(url) = 3 /\ url[1] = "api" /\ url[2] = "upload"

\* tasks.py: dispatch_episode_processing builds the callback url and the
\* message send_task puts on queue "audio_processing".
callback_url(episode_id) == MANAGER_BASE_URL \o <<"upload", episode_id>>

TaskMessage(task_id, episode_id, audio_url, retries) ==
    [id |-> task_id, episode_id |-> episode_id, audio_url |-> audio_url,
     callback_url |-> callback_url(episode_id), retries |-> retries]

\* ------------------------------------------------------------ queue_episodes
IdLists == UNION {[1..n -> EpisodeIds] : n \in 1..MaxIds}

IdleSession == [pc |-> "idle", ids |-> <<>>, cache |-> <<>>, dirty |-> <<>>,
                flushed |-> <<>>]

\* The statuses queue_episodes accepts (main.py line 506).
Queueable(status) == status \in {"DISCOVERED", "FAILED"}

\* Rows another transaction has locked make an UPDATE wait.
LockFree(q, es) == \A e \in es : rowlock[e] \in {0, q}

\* A request arrives: the handler starts with an empty session.
QueueStart(q, ids) ==
    /\ qs[q].pc = "idle"
    /\ qs' = [qs EXCEPT ![q] = [IdleSession EXCEPT !.pc = "loop", !.ids = ids]]
    /\ UNCHANGED <<MANAGER_BASE_URL, passes, feeds, episodes, rowlock, clock, channel, tasks, worker,
                   temp_file, upl, files, last_event, completed, response,
                   active_connections, bc>>

\* The transaction fails (StaleDataError: an UPDATE matched no row): it is
\* rolled back, the request answers 500.  Messages already sent stay sent.
QueueRollback(q) ==
    /\ qs' = [qs EXCEPT ![q] = IdleSession]
    /\ rowlock' = [e \in EpisodeIds |-> IF rowlock[e] = q THEN 0 ELSE rowlock[e]]
    /\ response' = 500

\* One iteration of the loop of lines 504-517 for the next id of the request.
\* session.get returns the session's own object when it holds one; otherwise
\* it autoflushes the pending UPDATEs and SELECTs the committed row.
QueueStep(q) ==
    /\ qs[q].pc = "loop"
    /\ qs[q].ids # <<>>
    /\ LET s == qs[q]
           e == Head(s.ids)
           rest == Tail(s.ids)
       IN IF e \in DOMAIN s.cache
          THEN \* the object is in the identity map: its status is the session's
               /\ ~Queueable(s.cache[e])
               /\ qs' = [qs EXCEPT ![q].ids = rest]
               /\ UNCHANGED <<rowlock, response, channel, tasks>>
          ELSE /\ LockFree(q, DOMAIN s.dirty)
               /\ IF \E d \in DOMAIN s.dirty : ~Exists(d)
                  THEN QueueRollback(q) /\ UNCHANGED <<channel, tasks>>
                  ELSE LET flushed == [d \in DOMAIN s.flushed \cup DOMAIN s.dirty |->
                                          IF d \in DOMAIN s.dirty THEN s.dirty[d] ELSE s.flushed[d]]
                           locks == [d \in EpisodeIds |->
                                          IF d \in DOMAIN s.dirty THEN q ELSE rowlock[d]]
                       IN /\ rowlock' = locks
                          /\ UNCHANGED response
                          /\ IF Exists(e) /\ Queueable(episodes[e].status)
                             THEN \* lines 507-515: mark QUEUED in the session, then dispatch
                                  \E sent \in BOOLEAN :
                                    /\ qs' = [qs EXCEPT ![q] =
                                          [s EXCEPT !.ids = rest,
                                                    !.cache = [x \in DOMAIN s.cache \cup {e} |->
                                                         IF x = e THEN "QUEUED" ELSE s.cache[x]],
                                                    !.dirty = [x \in {e} |-> utcnow],
                                                    !.flushed = flushed]]
                                    /\ IF sent
                                       THEN /\ channel' = channel \cup
                                                 {TaskMessage(Len(tasks) + 1, e, episodes[e].audio_url, 0)}
                                            /\ tasks' = Append(tasks,
                                                 [episode_id |-> e, executions |-> 0, state |-> "PENDING", exc |-> "",
                                                  reported |-> NoEvent])
                                       ELSE \* lines 516-517: the exception is logged, nothing else
                                            UNCHANGED <<channel, tasks>>
                             ELSE /\ qs' = [qs EXCEPT ![q] =
                                       [s EXCEPT !.ids = rest,
                                                 !.cache = IF Exists(e)
                                                           THEN [x \in DOMAIN s.cache \cup {e} |->
                                                                   IF x = e THEN episodes[e].status ELSE s.cache[x]]
                                                           ELSE s.cache,
                                                 !.dirty = <<>>,
                                                 !.flushed = flushed]]
                                  /\ UNCHANGED <<channel, tasks>>
    /\ UNCHANGED <<MANAGER_BASE_URL, passes, feeds, episodes, clock, worker, temp_file, upl, files, last_event,
                   completed, active_connections, bc>>

\* session.commit() (line 519): flush what is pending, then commit: every
\* UPDATE of the transaction becomes visible and its row locks are released.
QueueCommit(q) ==
    /\ qs[q].pc = "loop"
    /\ qs[q].ids = <<>>
    /\ LET s == qs[q]
           writes == [d \in DOMAIN s.flushed \cup DOMAIN s.dirty |->
                         IF d \in DOMAIN s.dirty THEN s.dirty[d] ELSE s.flushed[d]]
       IN /\ LockFree(q, DOMAIN s.dirty)
          /\ IF \E d \in DOMAIN s.dirty : ~Exists(d)
             THEN QueueRollback(q) /\ UNCHANGED episodes
             ELSE /\ episodes' = [e \in DOMAIN episodes |->
                        IF e \in DOMAIN writes
                        THEN [episodes[e] EXCEPT !.status = "QUEUED", !.updated_at = writes[e]]
                        ELSE episodes[e]]
                  /\ rowlock' = [e \in EpisodeIds |-> IF rowlock[e] = q THEN 0 ELSE rowlock[e]]
                  /\ qs' = [qs EXCEPT ![q] = IdleSession]
                  /\ response' = 200
    /\ UNCHANGED <<MANAGER_BASE_URL, passes, feeds, clock, channel, tasks, worker, temp_file, upl, files,
                   last_event, completed, active_connections, bc>>

\* -------------------------------------------- ignore_episodes, unignore_episodes
\* Reading attribute `name` of class EpisodeStatus raises AttributeError when the
\* enum defines no such member.
HasMember(name) == name \in EpisodeStatus

\* main.py 450-467.  The loop reads EpisodeStatus.IGNORED for the first id whose
\* episode is DISCOVERED or FAILED; the exception ends the request before
\* session.commit(), so nothing is written.
ignore_episodes(ids) ==
    /\ LET hit == {i \in 1..Len(ids) : Exists(ids[i]) /\ Queueable(episodes[ids[i]].status)}
       IN IF hit # {} /\ ~HasMember("IGNORED")
          THEN /\ response' = 500
               /\ UNCHANGED episodes
          ELSE /\ LockFree(0, {ids[i] : i \in hit})
               /\ episodes' = [e \in DOMAIN episodes |->
                     IF e \in {ids[i] : i \in hit}
                     THEN [episodes[e] EXCEPT !.status = "IGNORED", !.updated_at = utcnow]
                     ELSE episodes[e]]
               /\ response' = 200
    /\ UNCHANGED <<MANAGER_BASE_URL, passes, feeds, rowlock, clock, qs, channel, tasks, worker, temp_file, upl, files,
                   last_event, completed, active_connections, bc>>

\* main.py 470-487.  The comparison with EpisodeStatus.IGNORED is evaluated for
\* the first id that names an existing episode.
unignore_episodes(ids) ==
    /\ LET found == {i \in 1..Len(ids) : Exists(ids[i])}
           hit == {i \in found : episodes[ids[i]].status = "IGNORED"}
       IN IF found # {} /\ ~HasMember("IGNORED")
          THEN /\ response' = 500
               /\ UNCHANGED episodes
          ELSE /\ LockFree(0, {ids[i] : i \in hit})
               /\ episodes' = [e \in DOMAIN episodes |->
                     IF e \in {ids[i] : i \in hit}
                     THEN [episodes[e] EXCEPT !.status = "DISCOVERED", !.updated_at = utcnow]
                     ELSE episodes[e]]
               /\ response' = 200
    /\ UNCHANGED <<MANAGER_BASE_URL, passes, feeds, rowlock, clock, qs, channel, tasks, worker, temp_file, upl, files,
                   last_event, completed, active_connections, bc>>

\* -------------------------------------------------------------------- ingestion
\* ingest_feed(feed_id, session) is called by create_feed (main.py 210) and by
\* trigger_ingest (main.py 281) with the request's own session; its module is
\* not part of the sources, so its body follows the specification (section
\* 4.2): fetch the feed's document; for each item look up an episode of the
\* feed with the item's guid; leave it untouched when there is one, otherwise
\* create it DISCOVERED; return the episodes created.  A document is modelled
\* by the set of its items' guids.
Passes == 1..MaxPasses
Guids == 1..MaxGuids

IdlePass == [pc |-> "idle", origin |-> "", feed_id |-> 0, doc |-> {}, known |-> {},
             new_episodes |-> {}, code |-> 0]

\* The guids the lookups of a pass find under the feed: those of the committed
\* rows (READ COMMITTED; models.py 33-34: feed_id and guid are indexed columns,
\* no constraint makes the pair unique).
KnownGuids(rows, feed_id) == {rows[e].guid : e \in {x \in DOMAIN rows : rows[x].feed_id = feed_id}}

\* The items of the document for which the pass creates an episode.
Unseen(doc, known) == doc \ known

\* ids come from the sequence of the primary key (models.py 32).
NextId(rows) ==
    IF DOMAIN rows = {} THEN 1
    ELSE 1 + CHOOSE m \in DOMAIN rows : \A x \in DOMAIN rows : x <= m

Rank(g, guids) == Cardinality({x \in guids : x < g})

\* The table after the INSERTs of a pass for the items `guids`.
Inserted(rows, feed_id, guids, now) ==
    LET base == NextId(rows)
        ids == {base + Rank(g, guids) : g \in guids}
    IN [e \in DOMAIN rows \cup ids |->
          IF e \in DOMAIN rows THEN rows[e]
          ELSE [NewEpisode(e, now) EXCEPT
                   !.feed_id = feed_id,
                   !.guid = CHOOSE g \in guids : base + Rank(g, guids) = e,
                   !.audio_url = <<"audio", CHOOSE g \in guids : base + Rank(g, guids) = e>>]]

\* main.py 274-281 trigger_ingest (404 for an unknown feed), or main.py 205-210
\* create_feed after the commit of its feed: the pass starts, fetches the
\* document `doc` and reads which of its guids the feed has.
IngestBegin(p, origin, feed_id, doc) ==
    /\ passes[p].pc = "idle"
    /\ origin = "create_feed" => feed_id \in feeds /\ KnownGuids(episodes, feed_id) = {}
    /\ IF feed_id \notin feeds
       THEN passes' = [passes EXCEPT ![p] = [IdlePass EXCEPT !.code = 404]]
       ELSE passes' = [passes EXCEPT ![p] =
                [IdlePass EXCEPT !.pc = "insert", !.origin = origin, !.feed_id = feed_id,
                                 !.doc = doc, !.known = KnownGuids(episodes, feed_id)]]
    /\ UNCHANGED <<MANAGER_BASE_URL, feeds, episodes, rowlock, clock, qs, channel, tasks, worker,
                   temp_file, upl, files, last_event, completed, response, active_connections, bc>>

\* The pass inserts the episodes of the unseen items and commits; the request
\* returns them (main.py 283-287; create_feed returns its feed, 211-215).  The
\* INSERT of a row whose feed is gone violates the foreign key of models.py 33:
\* trigger_ingest answers 500, create_feed logs the exception (212-213).
IngestCommit(p) ==
    /\ passes[p].pc = "insert"
    /\ LET s == passes[p]
           new == Unseen(s.doc, s.known)
       IN IF new # {} /\ s.feed_id \notin feeds
          THEN /\ passes' = [passes EXCEPT ![p] =
                     [IdlePass EXCEPT !.code = IF s.origin = "create_feed" THEN 200 ELSE 500]]
               /\ UNCHANGED episodes
          ELSE /\ episodes' = Inserted(episodes, s.feed_id, new, utcnow)
               /\ passes' = [passes EXCEPT ![p] =
                     [IdlePass EXCEPT !.code = 200, !.doc = s.doc, !.known = s.known,
                                      !.new_episodes = new]]
    /\ UNCHANGED <<MANAGER_BASE_URL, feeds, rowlock, clock, qs, channel, tasks, worker,
                   temp_file, upl, files, last_event, completed, response, active_connections, bc>>

\* ---------------------------------------------------------------- list_episodes
\* models.py 32-40: the attributes of class Episode.  Reading any other
\* attribute of the class raises AttributeError.
EpisodeColumns ==
    {"id", "feed_id", "guid", "status", "title", "audio_url", "local_filename",
     "created_at", "updated_at"}

HasColumn(name) == name \in EpisodeColumns

\* main.py 370-443, for a request without feed_id and with the default page
\* (all rows fit on it): `status` is a member of EpisodeStatus or, when the
\* request has no status parameter (line 373), NoStatus.  Line
\* 389 reads EpisodeStatus.IGNORED when no status is given and show_ignored is
\* off; line 392 reads Episode.published_at.  An exception is answered 500.
NoStatus == "None"

list_episodes(status, show_ignored) ==
    IF status = NoStatus /\ ~show_ignored /\ ~HasMember("IGNORED")
    THEN [code |-> 500, items |-> {}]
    ELSE IF ~HasColumn("published_at")
    THEN [code |-> 500, items |-> {}]
    ELSE [code |-> 200,
          items |-> {e \in DOMAIN episodes :
                       IF status # NoStatus THEN episodes[e].status = status
                       ELSE show_ignored \/ episodes[e].status # "IGNORED"}]

ListRequest(status, show_ignored) ==
    /\ response' = list_episodes(status, show_ignored).code
    /\ UNCHANGED <<MANAGER_BASE_URL, passes, feeds, episodes, rowlock, clock, qs, channel, tasks, worker,
                   temp_file, upl, files, last_event, completed, active_connections, bc>>

\* ------------------------------------------------------------------ delete_feed
Autocommit(before, after, committed) == after

\* The DELETEs of lines 259-266 are statements of one transaction: session.flush()
\* (line 263) sends them without committing, session.commit() (line 267) is the
\* only commit.  The table is as the statements left it when the commit is
\* reached, and as it was before when the transaction fails on its way.
Transaction(before, after, committed) == IF committed THEN after ELSE before

\* main.py 245-271: the episodes of the feed and the feed are deleted in one
\* transaction; 404 for an unknown feed.  A DELETE waits for locked rows.  The
\* transaction may fail before its commit (the connection to the database is
\* lost, a statement times out): the request answers 500.
delete_feed(feed_id) ==
    /\ IF feed_id \notin feeds
       THEN /\ response' = 404
            /\ UNCHANGED <<feeds, episodes>>
       ELSE LET mine == {e \in DOMAIN episodes : episodes[e].feed_id = feed_id}
            IN /\ LockFree(0, mine)
               /\ \E committed \in BOOLEAN :
                    /\ episodes' = Transaction(episodes,
                                               [e \in DOMAIN episodes \ mine |-> episodes[e]],
                                               committed)
                    /\ feeds' = Transaction(feeds, feeds \ {feed_id}, committed)
                    /\ response' = IF committed THEN 200 ELSE 500
    /\ UNCHANGED <<MANAGER_BASE_URL, passes, rowlock, clock, qs, channel, tasks, worker, temp_file, upl,
                   files, last_event, completed, active_connections, bc>>

\* ------------------------------------------------- progress events (pipeline)
\* main.py 105-121 update_progress and 164-168: the handler hands the event to
\* manager.broadcast and touches nothing else.  In Spec no observer is
\* connected, so the broadcast iterates an empty set; the event handed over is
\* recorded per episode.
update_progress(events, episode_id, progress, stage) ==
    [e \in DOMAIN events |-> IF e = episode_id THEN Event(progress, stage) ELSE events[e]]

ProgressSetsStatus(rows, episode_id, progress, stage) ==
    [e \in DOMAIN rows |->
        IF e = episode_id /\ stage = "failed" THEN [rows[e] EXCEPT !.status = "FAILED"]
        ELSE IF e = episode_id /\ stage = "completed" THEN [rows[e] EXCEPT !.status = "CLEANED"]
        ELSE rows[e]]

\* main.py 105-121: update_progress takes no session and executes no statement:
\* the rows after the request are the rows before it.
ProgressRows(rows, episode_id, progress, stage) == rows

\* Any client that reaches the manager can POST /api/progress/{episode_id} with
\* a progress value and a stage.
Stages == {"processing", "completed", "failed"}

ProgressRequest(episode_id, progress, stage) ==
    /\ last_event' = update_progress(last_event, episode_id, progress, stage)
    /\ episodes' = ProgressRows(episodes, episode_id, progress, stage)
    /\ UNCHANGED <<MANAGER_BASE_URL, passes, feeds, rowlock, clock, qs, channel, tasks, worker, temp_file,
                   upl, files, completed, response, active_connections, bc>>

\* worker/main.py 51-60 report_progress: POST /progress/{id}.  A failure of
\* the request is only logged (lines 59-60) and changes nothing.
report_progress(events, episode_id, progress, stage) ==
    update_progress(events, episode_id, progress, stage)

\* --------------------------------------------------------- upload_cleaned_audio
\* A request slot: pc is the handler's position, written tells whether the
\* artifact file was written, code is the status code of the slot's last response.
IdleUpload == [pc |-> "idle", episode_id |-> 0, file |-> <<>>, loaded |-> <<>>, path |-> None,
               written |-> FALSE, code |-> 0]

\* main.py 140: the name check of the uploaded file.
ValidUpload(file) == file.filename # <<>> /\ file.filename[Len(file.filename)] = "mp3"

\* main.py 143-147, 157: the stored path, relative to AUDIO_STORAGE_PATH.
ArtifactPath(feed_id, episode_id, file) == <<feed_id, episode_id>> \o file.filename

\* The response of an upload request reaches the worker if it still waits for it.
Respond(u, code) ==
    /\ upl' = [upl EXCEPT ![u] = [IdleUpload EXCEPT !.code = code]]
    /\ worker' = IF worker.pc = "wait" /\ worker.upload = u
                 THEN [worker EXCEPT !.pc = "responded", !.code = code, !.upload = 0]
                 ELSE worker

PersistedAnyway(written) == TRUE

\* main.py 149-155: the write of the file is inside a try; an exception is
\* answered 500 and ends the request, otherwise the handler goes on.
Persisted(written) == written

\* main.py 136-155: load the episode (404 when there is none), check the file
\* name (400), write the file under the feed's directory (500 on failure).
UploadBegin(u) ==
    /\ upl[u].pc = "start"
    /\ LET e == upl[u].episode_id
       IN IF ~Exists(e)
          THEN Respond(u, 404) /\ UNCHANGED files
          ELSE IF ~ValidUpload(upl[u].file)
          THEN Respond(u, 400) /\ UNCHANGED files
          ELSE \E written \in BOOLEAN :
                 IF Persisted(written)
                 THEN /\ files' = [files EXCEPT ![e] = IF written THEN @ + 1 ELSE @]
                      /\ upl' = [upl EXCEPT ![u].pc = "commit", ![u].loaded = episodes[e],
                                            ![u].written = written,
                                            ![u].path = ArtifactPath(episodes[e].feed_id, e, upl[u].file)]
                      /\ UNCHANGED worker
                 ELSE Respond(u, 500) /\ UNCHANGED files
    /\ UNCHANGED <<MANAGER_BASE_URL, passes, feeds, episodes, rowlock, clock, qs, channel, tasks, temp_file,
                   last_event, completed, response, active_connections, bc>>

\* main.py 157-161: the three assignments and session.commit().  The UPDATE waits
\* for a locked row and raises StaleDataError (a 500) when the row is gone.
UploadCommit(u) ==
    /\ upl[u].pc = "commit"
    /\ LET e == upl[u].episode_id
           loaded == upl[u].loaded
           new == [loaded EXCEPT !.local_filename = upl[u].path,
                                 !.status = "CLEANED",
                                 !.updated_at = utcnow]
       IN /\ rowlock[e] = 0
          /\ IF Exists(e)
             THEN /\ episodes' = [episodes EXCEPT ![e] = UpdateRow(episodes[e], loaded, new)]
                  /\ upl' = [upl EXCEPT ![u].pc = "broadcast"]
                  /\ UNCHANGED worker
             ELSE /\ Respond(u, 500)
                  /\ UNCHANGED episodes
    /\ UNCHANGED <<MANAGER_BASE_URL, passes, feeds, rowlock, clock, qs, channel, tasks, temp_file, files,
                   last_event, completed, response, active_connections, bc>>

\* main.py 163-176: broadcast the completion, answer 200.  Spec abstracts
\* from the observers: the call of manager.broadcast returns, or raises the
\* RuntimeError of its iteration (SpecBroadcast), which nothing in the handler
\* catches: the request is then answered 500, after the commit.
UploadBroadcast(u) ==
    /\ upl[u].pc = "broadcast"
    /\ \E raised \in BOOLEAN :
         IF raised
         THEN /\ Respond(u, 500)
              /\ UNCHANGED <<last_event, completed>>
         ELSE /\ last_event' = update_progress(last_event, upl[u].episode_id, 100, "completed")
              /\ completed' = [completed EXCEPT ![upl[u].episode_id] = @ + 1]
              /\ Respond(u, 200)
    /\ UNCHANGED <<MANAGER_BASE_URL, passes, feeds, episodes, rowlock, clock, qs, channel, tasks, temp_file, files,
                   response, active_connections, bc>>

\* Any client that reaches the manager can POST a file to the upload endpoint
\* (main.py 124-129: the route takes the episode id from the path and any
\* multipart file; nothing identifies the sender).
UploadFiles ==
    [filename : {<<>>, <<"a", "mp3">>, <<"a", "txt">>}, content_type : {"audio/mpeg", "text/plain"}]

ClientUpload(u, episode_id, file) ==
    /\ upl[u].pc = "idle"
    /\ \A e \in EpisodeIds : files[e] < MaxClientUploads
    /\ upl' = [upl EXCEPT ![u] = [IdleUpload EXCEPT !.pc = "start", !.episode_id = episode_id,
                                                    !.file = file]]
    /\ UNCHANGED <<MANAGER_BASE_URL, passes, feeds, episodes, rowlock, clock, qs, channel, tasks, worker,
                   temp_file, files, last_event, completed, response, active_connections, bc>>

\* ------------------------------------------------------------------- the worker
NotReported(ts, t, progress, stage) == ts

\* worker/main.py 51-58: the task calls report_progress; `reported` of a task
\* is the last event it reported.
Reported(ts, t, progress, stage) == [ts EXCEPT ![t].reported = Event(progress, stage)]

\* worker/main.py 140-144: the finally clause unlinks the temp file if it exists.
FinallyKeep(exists) == exists

Finally(exists) == FALSE

IdleWorker == [pc |-> "idle", task |-> <<>>, upload |-> 0, code |-> 0]

\* worker/main.py 115: the file the worker uploads.
CleanedFile(episode_id) ==
    [filename |-> <<"episode", episode_id, "cleaned", "mp3">>, content_type |-> "audio/mpeg"]

MayRetryOffByOne(request_retries) == request_retries <= max_retries

\* celery Task.retry(max_retries=3), called at line 133: the task is sent again
\* with retries + 1 unless that exceeds max_retries, in which case the
\* exception is raised and the task fails.
MayRetry(request_retries) == request_retries + 1 <= max_retries

\* The worker takes a message: the task body starts (lines 81-90).
WorkerReceive ==
    /\ worker.pc = "idle"
    /\ \E m \in channel :
        /\ channel' = channel \ {m}
        /\ worker' = [IdleWorker EXCEPT !.pc = "download", !.task = m]
        /\ tasks' = Reported([tasks EXCEPT ![m.id].executions = @ + 1, ![m.id].state = "STARTED"],
                              m.id, 10, "downloading")
        /\ last_event' = report_progress(last_event, m.episode_id, 10, "downloading")
    /\ UNCHANGED <<MANAGER_BASE_URL, passes, feeds, episodes, rowlock, clock, qs, temp_file, upl, files, completed,
                   response, active_connections, bc>>

\* The except clauses and the finally of lines 130-144, entered with `events`
\* published so far.  A RequestException reports "failed" and calls self.retry;
\* any other exception reports "failed" and is raised.  The finally removes
\* the temp file.
WorkerFail(events, network) ==
    LET m == worker.task
    IN /\ last_event' = report_progress(events, m.episode_id, 0, "failed")
       /\ IF network /\ MayRetry(m.retries)
          THEN /\ channel' = channel \cup
                     {TaskMessage(m.id, m.episode_id, m.audio_url, m.retries + 1)}
               /\ tasks' = Reported([tasks EXCEPT ![m.id].state = "RETRY"], m.id, 0, "failed")
          ELSE /\ tasks' = Reported([tasks EXCEPT ![m.id].state = "FAILURE",
                                                   ![m.id].exc = IF network THEN "RequestException"
                                                                 ELSE "Exception"],
                                     m.id, 0, "failed")
               /\ UNCHANGED channel
       /\ temp_file' = Finally(temp_file)
       /\ worker' = IdleWorker

\* Lines 93-102: download audio_url into the temp file.
WorkerDownload ==
    /\ worker.pc = "download"
    /\ \E outcome \in {"ok", "network", "other"} :
        IF outcome = "ok"
        THEN /\ temp_file' = TRUE
             /\ worker' = [worker EXCEPT !.pc = "process"]
             /\ last_event' = report_progress(last_event, worker.task.episode_id, 30,
                                              "downloaded")
             /\ tasks' = Reported(tasks, worker.task.id, 30, "downloaded")
             /\ UNCHANGED channel
        ELSE WorkerFail(last_event, outcome = "network")
    /\ UNCHANGED <<MANAGER_BASE_URL, passes, feeds, episodes, rowlock, clock, qs, upl, files, completed,
                   response, active_connections, bc>>

\* Lines 105-108: the simulated processing, reported at 50 and at 80.
WorkerProcess ==
    /\ worker.pc = "process"
    /\ last_event' = report_progress(
                          report_progress(last_event, worker.task.episode_id, 50, "processing"),
                          worker.task.episode_id, 80, "processing")
    /\ worker' = [worker EXCEPT !.pc = "upload"]
    /\ tasks' = Reported(Reported(tasks, worker.task.id, 50, "processing"),
                         worker.task.id, 80, "processing")
    /\ UNCHANGED <<MANAGER_BASE_URL, passes, feeds, episodes, rowlock, clock, qs, channel, temp_file, upl,
                   files, completed, response, active_connections, bc>>

\* Lines 111-116: report 90, POST the file to the callback url.  Either the
\* request reaches the manager, where upload_cleaned_audio starts for the
\* episode id of the url when the url is the route of that endpoint, or the
\* connection fails (a RequestException).
WorkerUpload ==
    /\ worker.pc = "upload"
    /\ LET m == worker.task
       IN \E reached \in BOOLEAN :
           LET ev == report_progress(last_event, m.episode_id, 90, "uploading")
           IN IF reached /\ UploadRoute(m.callback_url)
              THEN \E u \in Uploads :
                    /\ upl[u].pc = "idle"
                    /\ \A v \in Uploads : v < u => upl[v].pc # "idle"
                    /\ upl' = [upl EXCEPT ![u] =
                          [IdleUpload EXCEPT !.pc = "start", !.episode_id = m.callback_url[3],
                                             !.file = CleanedFile(m.episode_id)]]
                    /\ worker' = [worker EXCEPT !.pc = "wait", !.upload = u]
                    /\ last_event' = ev
                    /\ tasks' = Reported(tasks, m.id, 90, "uploading")
                    /\ UNCHANGED <<channel, temp_file>>
              ELSE IF reached
              THEN \* no POST route has this path: 404, or 405 from the GET-only
                   \* fallback of lines 534-541 when the static directory exists
                   /\ \E code \in {404, 405} :
                         worker' = [worker EXCEPT !.pc = "responded", !.code = code]
                   /\ last_event' = ev
                   /\ tasks' = Reported(tasks, m.id, 90, "uploading")
                   /\ UNCHANGED <<channel, temp_file, upl>>
              ELSE /\ WorkerFail(ev, TRUE)
                   /\ UNCHANGED upl
    /\ UNCHANGED <<MANAGER_BASE_URL, passes, feeds, episodes, rowlock, clock, qs, files, completed, response,
                   active_connections, bc>>

\* Line 116, timeout=300: the worker stops waiting for the response (a
\* RequestException); the handler goes on without it.
WorkerTimeout ==
    /\ worker.pc = "wait"
    /\ WorkerFail(last_event, TRUE)
    /\ UNCHANGED <<MANAGER_BASE_URL, passes, feeds, episodes, rowlock, clock, qs, upl, files, completed,
                   response, active_connections, bc>>

\* Lines 117-128: raise_for_status raises HTTPError, a RequestException, for a
\* 4xx or 5xx response; otherwise "completed" is reported and the task succeeds.
WorkerResponse ==
    /\ worker.pc = "responded"
    /\ IF worker.code >= 400
       THEN WorkerFail(last_event, TRUE)
       ELSE /\ last_event' = report_progress(last_event, worker.task.episode_id, 100,
                                              "completed")
             /\ tasks' = Reported([tasks EXCEPT ![worker.task.id].state = "SUCCESS"],
                                   worker.task.id, 100, "completed")
             /\ temp_file' = Finally(temp_file)
             /\ worker' = IdleWorker
             /\ UNCHANGED channel
    /\ UNCHANGED <<MANAGER_BASE_URL, passes, feeds, episodes, rowlock, clock, qs, upl, files, completed,
                   response, active_connections, bc>>

\* ------------------------------------------------------- the ConnectionManager
\* One call of broadcast (main.py 40-48); whatever other tasks do to the set
\* while it is suspended, other calls of broadcast included, is a sequence of
\* connect and disconnect steps.  si_used, todo and cur are the state
\* of the iterator of `for connection in self.active_connections` while the
\* call is suspended in `await connection.send_json`; disconnected is the
\* local set of line 42.  The other fields record the call's history:
\* stayed     the observers in the set since the call began, without interruption
\* delivered  the observers whose send returned
\* alone      no other task changed the set while the call was suspended
IdleBroadcast ==
    [pc |-> "idle", si_used |-> 0, todo |-> {}, cur |-> 0, disconnected |-> {},
     stayed |-> {}, delivered |-> {}, alone |-> TRUE]

Suspended == bc.pc = "sending"

\* Line 48: self.active_connections -= disconnected.
Remaining(connections, disconnected) == connections \ disconnected

\* Lines 44-47: the result of one send: the try/except puts a connection whose
\* send raised into disconnected and goes on.
AfterSend(call, sent) ==
    IF sent
    THEN [call EXCEPT !.delivered = @ \cup {call.cur}]
    ELSE [call EXCEPT !.disconnected = @ \cup {call.cur}]

\* What a change of the set by another task does to a suspended call: an
\* element that left is not visited; an element that came lies ahead of the
\* iterator or behind it (`ahead`: the calls for which it lies ahead).
Disturb(call, came, left, ahead) ==
    [call EXCEPT !.todo = (@ \ left) \cup (IF ahead THEN came ELSE {}),
                 !.stayed = @ \ left,
                 !.alone = @ /\ came = {} /\ left = {}]

\* The for statement asks the iterator for the next connection (line 43) in
\* `call`, with the set being `connections`: RuntimeError("Set changed size
\* during iteration") when the size differs from the size at the iterator's
\* creation; the end of the loop and line 48 when nothing is left; otherwise
\* the next send starts.
IterNext(call, connections, c) ==
    IF Cardinality(connections) # call.si_used
    THEN [call EXCEPT !.pc = "raised", !.cur = 0]
    ELSE IF call.todo = {}
    THEN [call EXCEPT !.pc = "done", !.cur = 0]
    ELSE [call EXCEPT !.pc = "sending", !.cur = c, !.todo = @ \ {c}]

Choices(call) == IF call.todo = {} THEN {0} ELSE call.todo

\* The set after the step that took `call` to its new state.
SetAfter(call, connections) ==
    IF call.pc = "done" THEN Remaining(connections, call.disconnected) ELSE connections

\* main.py 33-35: accept the websocket, add it to the set.
connect(websocket) ==
    /\ websocket \notin active_connections
    /\ active_connections' = active_connections \cup {websocket}
    /\ \E ahead \in BOOLEAN :
         bc' = IF Suspended THEN Disturb(bc, {websocket}, {}, ahead) ELSE bc
    /\ UNCHANGED pipelineVars

\* main.py 37-38 and 101-102: the handler of a websocket that went away
\* discards it from the set.  (Line 48 of another call of broadcast removes
\* its failed connections from the set in the same way.)
disconnect(websocket) ==
    /\ websocket \in active_connections
    /\ active_connections' = active_connections \ {websocket}
    /\ bc' = IF Suspended THEN Disturb(bc, {}, {websocket}, FALSE) ELSE bc
    /\ UNCHANGED pipelineVars

\* A publisher (update_progress, line 116; upload_cleaned_audio, line 164)
\* calls broadcast: lines 42-43 up to the first await, or to the end when the
\* set is empty.
BroadcastStart ==
    /\ bc.pc = "idle"
    /\ \E c \in Choices([todo |-> active_connections]) :
        LET call == IterNext([IdleBroadcast EXCEPT !.si_used = Cardinality(active_connections),
                                                   !.todo = active_connections,
                                                   !.stayed = active_connections],
                             active_connections, c)
        IN /\ bc' = call
           /\ active_connections' = SetAfter(call, active_connections)
    /\ UNCHANGED pipelineVars

\* The send returns or raises, and the loop goes on to its next await, to its
\* end and line 48, or to the RuntimeError.
BroadcastResume ==
    /\ Suspended
    /\ \E sent \in BOOLEAN, c \in Choices(bc) :
        LET call == IterNext(AfterSend(bc, sent), active_connections, c)
        IN /\ bc' = call
           /\ active_connections' = SetAfter(call, active_connections)
    /\ UNCHANGED pipelineVars

\* The call returns to its publisher, or its exception reaches it.
BroadcastReturn ==
    /\ bc.pc \in {"done", "raised"}
    /\ bc' = IdleBroadcast
    /\ UNCHANGED active_connections
    /\ UNCHANGED pipelineVars

NextBroadcast ==
    \/ \E o \in Observers : connect(o)
    \/ \E o \in Observers : disconnect(o)
    \/ BroadcastStart
    \/ BroadcastResume
    \/ BroadcastReturn

\* ---------------------------------------------------------------- the pipeline
\* The database after create_feed ingested a feed of MaxEpisodes items; no
\* request in flight, an empty channel, an idle worker, no observer.
Init ==
    /\ MANAGER_BASE_URL \in BaseUrls
    /\ passes = [p \in Passes |-> IdlePass]
    /\ feeds = {FeedId}
    /\ episodes = [e \in EpisodeIds |-> NewEpisode(e, 0)]
    /\ rowlock = [e \in EpisodeIds |-> 0]
    /\ clock = 0
    /\ qs = [q \in Sessions |-> IdleSession]
    /\ channel = {}
    /\ tasks = <<>>
    /\ worker = IdleWorker
    /\ temp_file = FALSE
    /\ upl = [u \in Uploads |-> IdleUpload]
    /\ files = [e \in EpisodeIds |-> 0]
    /\ last_event = [e \in EpisodeIds |-> NoEvent]
    /\ completed = [e \in EpisodeIds |-> 0]
    /\ response = 0
    /\ active_connections = {}
    /\ bc = IdleBroadcast

Next ==
    \/ Tick
    \/ \E q \in Sessions, ids \in IdLists : QueueStart(q, ids)
    \/ \E q \in Sessions : QueueStep(q)
    \/ \E q \in Sessions : QueueCommit(q)
    \/ \E ids \in IdLists : ignore_episodes(ids)
    \/ \E ids \in IdLists : unignore_episodes(ids)
    \/ \E status \in EpisodeStatus \cup {NoStatus}, show_ignored \in BOOLEAN :
          ListRequest(status, show_ignored)
    \/ delete_feed(FeedId)
    \/ WorkerReceive
    \/ WorkerDownload
    \/ WorkerProcess
    \/ WorkerUpload
    \/ WorkerTimeout
    \/ WorkerResponse
    \/ \E u \in Uploads : UploadBegin(u)
    \/ \E u \in Uploads : UploadCommit(u)
    \/ \E u \in Uploads : UploadBroadcast(u)

Spec == Init /\ [][Next]_vars

SpecBroadcast == Init /\ [][NextBroadcast]_vars

\* The scheduling of the code: the worker process runs the body of a task it
\* took to its end (every blocking call has a timeout), Celery hands a waiting
\* message to the idle worker, and a request handler of the manager that has
\* started runs to its response.
Fairness ==
    /\ WF_vars(WorkerReceive)
    /\ WF_vars(WorkerDownload)
    /\ WF_vars(WorkerProcess)
    /\ WF_vars(WorkerUpload)
    /\ WF_vars(WorkerTimeout)
    /\ WF_vars(WorkerResponse)
    /\ \A u \in Uploads :
          WF_vars(UploadBegin(u)) /\ WF_vars(UploadCommit(u)) /\ WF_vars(UploadBroadcast(u))
    /\ \A q \in Sessions : WF_vars(QueueStep(q)) /\ WF_vars(QueueCommit(q))

SpecFair == Spec /\ Fairness

\* ------------------------------------------------------------------ get_feed_rss
\* main.py 303-308: the rows of the feed with status CLEANED.
SelectedAnyStatus(feed_id) == {e \in DOMAIN episodes : episodes[e].feed_id = feed_id}

Selected(feed_id) ==
    {e \in DOMAIN episodes : episodes[e].feed_id = feed_id /\ episodes[e].status = "CLEANED"}

\* order_by(Episode.created_at.desc()): the orders the database may return the
\* rows `es` in; rows of equal created_at come in any order.
OrderedByCreatedDesc(es) ==
    {rows \in [1..Cardinality(es) -> es] :
        /\ \A i, j \in DOMAIN rows : i # j => rows[i] # rows[j]
        /\ \A i, j \in DOMAIN rows : i < j =>
              episodes[rows[i]].created_at >= episodes[rows[j]].created_at}

\* main.py 321-323: rows without local_filename are skipped.
HasArtifact(e) == episodes[e].local_filename # None

\* main.py 290-343: the responses the request can get: 404 for an unknown feed,
\* otherwise the document, given by the episodes of its items in order.
get_feed_rss(feed_id) ==
    IF feed_id \notin feeds
    THEN {[code |-> 404, items |-> <<>>]}
    ELSE {[code |-> 200, items |-> SelectSeq(rows, HasArtifact)] :
             rows \in OrderedByCreatedDesc(Selected(feed_id))}

\* A reader requests GET /feed/{feed_id}.
RssRequest(feed_id) ==
    /\ \E doc \in get_feed_rss(feed_id) : response' = doc.code
    /\ UNCHANGED <<MANAGER_BASE_URL, passes, feeds, episodes, rowlock, clock, qs, channel, tasks, worker,
                   temp_file, upl, files, last_event, completed, active_connections, bc>>

\* The tables get_feed_rss may find: feeds with ids up to MaxFeeds, episodes of
\* those feeds (the foreign key of models.py line 33) in the statuses the
\* pipeline leaves rows in; local_filename is set in CLEANED rows and may be
\* set in QUEUED ones.
RssFeedIds == 1..MaxFeeds
RssRows ==
    {r \in [feed_id : RssFeedIds, status : {"DISCOVERED", "QUEUED", "CLEANED"},
            audio_url : {<<"audio">>}, local_filename : {None, <<"path">>},
            created_at : 0..MaxClock, updated_at : {MaxClock}] :
        /\ r.status = "CLEANED" => r.local_filename # None
        /\ r.status = "DISCOVERED" => r.local_filename = None}

InitRss ==
    /\ MANAGER_BASE_URL = <<>>
    /\ passes = [p \in Passes |-> IdlePass]
    /\ feeds \in SUBSET RssFeedIds
    /\ \E n \in 0..MaxRssEpisodes : episodes \in [1..n -> RssRows]
    /\ \A e \in DOMAIN episodes : episodes[e].feed_id \in feeds
    /\ rowlock = [e \in EpisodeIds |-> 0]
    /\ clock = MaxClock
    /\ qs = [q \in Sessions |-> IdleSession]
    /\ channel = {}
    /\ tasks = <<>>
    /\ worker = IdleWorker
    /\ temp_file = FALSE
    /\ upl = [u \in Uploads |-> IdleUpload]
    /\ files = [e \in EpisodeIds |-> 0]
    /\ last_event = [e \in EpisodeIds |-> NoEvent]
    /\ completed = [e \in EpisodeIds |-> 0]
    /\ response = 0
    /\ active_connections = {}
    /\ bc = IdleBroadcast

NextRss == \E f \in RssFeedIds : RssRequest(f)

SpecRss == InitRss /\ [][NextRss]_vars

\* Ingestion alone: a feed that create_feed has just committed, with no episode
\* yet; the passes of create_feed and of trigger_ingest requests, each with the
\* document it fetched, and delete_feed.
InitIngest ==
    /\ MANAGER_BASE_URL = <<>>
    /\ passes = [p \in Passes |-> IdlePass]
    /\ feeds = {FeedId}
    /\ episodes = <<>>
    /\ rowlock = [e \in 1..(MaxPasses * MaxGuids) |-> 0]
    /\ clock = 0
    /\ qs = [q \in Sessions |-> IdleSession]
    /\ channel = {}
    /\ tasks = <<>>
    /\ worker = IdleWorker
    /\ temp_file = FALSE
    /\ upl = [u \in Uploads |-> IdleUpload]
    /\ files = [e \in EpisodeIds |-> 0]
    /\ last_event = [e \in EpisodeIds |-> NoEvent]
    /\ completed = [e \in EpisodeIds |-> 0]
    /\ response = 0
    /\ active_connections = {}
    /\ bc = IdleBroadcast

NextIngest ==
    \/ \E p \in Passes, origin \in {"create_feed", "trigger_ingest"}, doc \in SUBSET Guids :
          IngestBegin(p, origin, FeedId, doc)
    \/ \E p \in Passes : IngestCommit(p)
    \/ delete_feed(FeedId)

SpecIngest == InitIngest /\ [][NextIngest]_vars

\* The rows of a feed that carry the guid g.
WithGuid(rows, feed_id, g) == {e \in DOMAIN rows : rows[e].feed_id = feed_id /\ rows[e].guid = g}

\* C21: ingestion is idempotent.  After any sequence of passes over a feed,
\* overlapping ones included, no two episodes of the feed share a guid; a pass
\* leaves every existing episode as it was; and a pass whose document holds no
\* guid the feed does not already have returns no new episode.
C21_IngestIdempotent ==
    [][\A p \in Passes :
          IngestCommit(p) =>
             /\ \A g \in Guids : Cardinality(WithGuid(episodes', FeedId, g)) <= 1
             /\ \A e \in DOMAIN episodes : e \in DOMAIN episodes' /\ episodes'[e] = episodes[e]
             /\ passes[p].doc \subseteq KnownGuids(episodes, FeedId)
                   => passes'[p].new_episodes = {}]_vars

\* Passes that do not overlap are idempotent: when no other pass is in flight
\* between the read and the commit of a pass, the three parts of C21 hold.
C21_SequentialPasses ==
    [][\A p \in Passes :
          IngestCommit(p) /\ passes[p].known = KnownGuids(episodes, FeedId) =>
             /\ (\A g \in Guids : Cardinality(WithGuid(episodes, FeedId, g)) <= 1)
                   => \A g \in Guids : Cardinality(WithGuid(episodes', FeedId, g)) <= 1
             /\ \A e \in DOMAIN episodes : e \in DOMAIN episodes' /\ episodes'[e] = episodes[e]
             /\ passes[p].doc \subseteq KnownGuids(episodes, FeedId)
                   => passes'[p].new_episodes = {}]_vars

\* Two episodes of the feed with one guid.
C21_DuplicateGuid == \E g \in Guids : Cardinality(WithGuid(episodes, FeedId, g)) > 1

\* The endpoints the worker calls, alone, with the requests any client can
\* send to them.
NextUpload ==
    \/ Tick
    \/ \E e \in 1..(MaxEpisodes + 1), progress \in {0, 100}, stage \in Stages :
          ProgressRequest(e, progress, stage)
    \/ \E u \in Uploads, e \in 1..(MaxEpisodes + 1), file \in UploadFiles : ClientUpload(u, e, file)
    \/ \E u \in Uploads : UploadBegin(u)
    \/ \E u \in Uploads : UploadCommit(u)
    \/ \E u \in Uploads : UploadBroadcast(u)
    \/ delete_feed(FeedId)

SpecUpload == Init /\ [][NextUpload]_vars

\* ======================================================================= claims

\* C1: in every reachable state every episode has local_filename set if and
\* only if its committed status is CLEANED.
C1_ArtifactIffCleaned ==
    \A e \in DOMAIN episodes :
        (episodes[e].local_filename # None) <=> (episodes[e].status = "CLEANED")

\* C2: every change of an episode's committed status is one of the legal
\* transitions of the table; any other attempt leaves the status unchanged.
LegalTransitions ==
    {<<"DISCOVERED", "QUEUED">>, <<"FAILED", "QUEUED">>, <<"DISCOVERED", "IGNORED">>,
     <<"FAILED", "IGNORED">>, <<"IGNORED", "DISCOVERED">>, <<"QUEUED", "PROCESSING">>,
     <<"QUEUED", "CLEANED">>, <<"PROCESSING", "CLEANED">>,
     <<"QUEUED", "FAILED">>, <<"PROCESSING", "FAILED">>}

C2_StateMachineClosure ==
    [][\A e \in DOMAIN episodes \cap DOMAIN episodes' :
          episodes[e].status # episodes'[e].status
              => <<episodes[e].status, episodes'[e].status>> \in LegalTransitions]_vars

\* C3: no episode is committed as QUEUED without a work message having been
\* dispatched for it (a failed dispatch leaves it FAILED, not QUEUED).
C3_NoQueuedWithoutDispatch ==
    \A e \in DOMAIN episodes :
        episodes[e].status = "QUEUED" => \E t \in DOMAIN tasks : tasks[t].episode_id = e

\* C4: once the worker has given up a task after network errors, the episode
\* is FAILED, has no local_filename, and its last progress event is 0% "failed".
GaveUp(t) == tasks[t].state = "FAILURE" /\ tasks[t].exc = "RequestException"

C4_GiveUpMarksFailed ==
    \A t \in DOMAIN tasks :
        LET e == tasks[t].episode_id
        IN (GaveUp(t) /\ Exists(e) /\ tasks[t].executions = max_retries + 1)
            => /\ episodes[e].status = "FAILED"
               /\ episodes[e].local_filename = None
               /\ last_event[e] = Event(0, "failed")

\* C5: an upload callback delivered for an episode that an earlier delivery
\* already made CLEANED is a no-op: it leaves the episode's row as it is,
\* writes no artifact and publishes no completion event.
SecondDelivery(u) ==
    \/ /\ upl[u].pc = "start"
       /\ Exists(upl[u].episode_id)
       /\ episodes[upl[u].episode_id].status = "CLEANED"
    \/ /\ upl[u].pc \in {"commit", "broadcast"}
       /\ upl[u].loaded.status = "CLEANED"

C5_IdempotentCallback ==
    [][\A u \in Uploads :
          (SecondDelivery(u) /\ upl'[u] # upl[u])
              => /\ files' = files
                 /\ completed' = completed
                 /\ \A e \in DOMAIN episodes \cap DOMAIN episodes' : episodes'[e] = episodes[e]]_vars

\* C6: whenever a work message for an episode is available to the worker, is
\* being executed, or its upload is being handled, the transition of that
\* episode to QUEUED is already committed.
Uncommitted(e) ==
    \E q \in Sessions : e \in DOMAIN qs[q].dirty \cup DOMAIN qs[q].flushed

C6_DispatchAfterCommit ==
    \A e \in EpisodeIds :
        (\/ \E m \in channel : m.episode_id = e
         \/ worker.pc # "idle" /\ worker.task.episode_id = e
         \/ \E u \in Uploads : upl[u].pc # "idle" /\ upl[u].episode_id = e)
            => ~Uncommitted(e)

\* C7: a broadcast during which observers connect or disconnect does not
\* raise, and delivers to every observer subscribed for its whole duration
\* (except those whose send failed).
C7_BroadcastSafeUnderChange ==
    /\ bc.pc # "raised"
    /\ bc.pc = "done" => bc.stayed \subseteq bc.delivered \cup bc.disconnected

\* C8: a broadcast ends without raising to its publisher, has delivered to
\* every observer that was subscribed throughout and whose send did not fail,
\* and removes from the set exactly the observers whose send failed.
BroadcastEnds == bc.pc \in {"idle", "sending"} /\ bc'.pc \in {"done", "raised"}

C8_BroadcastIsolation ==
    [][BroadcastEnds
          => /\ bc'.pc = "done"
             /\ bc'.stayed \ bc'.disconnected \subseteq bc'.delivered
             /\ active_connections' = active_connections \ bc'.disconnected]_vars

\* The same for the broadcasts during which no other task changed the set:
\* the try/except of lines 44-47 isolates the failing sends.
IsolationWhenUndisturbed ==
    [][(BroadcastEnds /\ bc'.alone)
          => /\ bc'.pc = "done"
             /\ bc'.disconnected \subseteq active_connections
             /\ bc'.delivered = active_connections \ bc'.disconnected
             /\ active_connections' = active_connections \ bc'.disconnected]_vars

C10_NoRetryOnRejection ==
    [][(worker.pc = "responded" /\ worker.code \in {400, 404})
          => \A m \in channel' \ channel : m.id # worker.task.id]_vars

\* C12: every step of queue_episodes that marks an episode QUEUED puts exactly
\* one message on the channel, and a message put on the channel for the first
\* time is for an episode that was DISCOVERED or FAILED and carries that
\* episode's id, its audio url and a callback url that is the route of the
\* upload endpoint for the same id.
Dispatched == {m \in channel' \ channel : m.retries = 0}

MarkedQueued(q) == DOMAIN qs'[q].dirty \ DOMAIN qs[q].dirty

C12_DispatchPayload ==
    [][/\ \A q \in Sessions : \A e \in MarkedQueued(q) :
             Cardinality({m \in Dispatched : m.episode_id = e}) = 1
       /\ \A m \in Dispatched :
             /\ Exists(m.episode_id)
             /\ Queueable(episodes[m.episode_id].status)
             /\ m.audio_url = episodes[m.episode_id].audio_url
             /\ UploadRoute(m.callback_url)
             /\ m.callback_url[3] = m.episode_id]_vars

\* C11: an attempt of the task of a queued episode that has started leads to
\* the failure of that attempt (a failed download or upload) or to the episode
\* being CLEANED with local_filename set, and to that failure or to the success
\* of the task with the 100% "completed" event published.
TaskIds == 1..(MaxEpisodes * MaxSessions)

Attempting(t) == worker.pc = "download" /\ worker.task.id = t

EpisodeOf(t) == IF t \in DOMAIN tasks THEN tasks[t].episode_id ELSE 0

AttemptFailed(t) == t \in DOMAIN tasks /\ tasks[t].state \in {"RETRY", "FAILURE"}

CleanedNow(e) ==
    /\ Exists(e)
    /\ episodes[e].status = "CLEANED"
    /\ episodes[e].local_filename # None

Succeeded(t) ==
    /\ t \in DOMAIN tasks
    /\ tasks[t].state = "SUCCESS"
    /\ completed[tasks[t].episode_id] > 0
    /\ last_event[tasks[t].episode_id] = Event(100, "completed")

Rejecting(u) == upl[u].pc = "start" /\ upl'[u].pc = "idle"

Unpersisted(u) ==
    /\ upl[u].pc \in {"commit", "broadcast"}
    /\ ~upl[u].written
    /\ upl'[u] # upl[u]

C13_RejectionLeavesState ==
    [][\A u \in Uploads :
          (Rejecting(u) \/ Unpersisted(u))
              => /\ upl'[u].code \in {400, 404, 500}
                 /\ episodes' = episodes
                 /\ completed' = completed
                 /\ last_event' = last_event]_vars

C13_Witness ==
    \E u \in Uploads, e \in DOMAIN episodes :
        /\ upl[u].pc = "idle"
        /\ upl[u].code = 400
        /\ episodes[e] = NewEpisode(e, 0)

\* C14: the upload handler goes on to store a file and to transition the
\* episode only when the file's media type is audio/mpeg and its name ends in
\* .mp3; an upload of another media type is answered with a rejection and
\* changes no episode.
WrongMediaType(u) == upl[u].pc = "start" /\ upl[u].file.content_type # "audio/mpeg"

C14_MediaTypeChecked ==
    [][\A u \in Uploads :
          /\ (upl[u].pc = "start" /\ upl'[u].pc = "commit")
                => upl[u].file.content_type = "audio/mpeg" /\ ValidUpload(upl[u].file)
          /\ (WrongMediaType(u) /\ upl'[u] # upl[u])
                => /\ upl'[u].pc = "idle"
                   /\ upl'[u].code \in {400, 404, 500}
                   /\ episodes' = episodes]_vars

\* C15: the last progress event a task has reported when an execution of it
\* has ended is 100% "completed" if the task succeeded and 0% "failed" if the
\* execution failed (to be retried, or for good); since `reported` is the last
\* event, none follows it once the task has ended.
Ended(t) == tasks[t].state \in {"SUCCESS", "RETRY", "FAILURE"}

C15_TerminalEventLast ==
    \A t \in DOMAIN tasks :
        /\ tasks[t].state = "SUCCESS" => tasks[t].reported = Event(100, "completed")
        /\ tasks[t].state \in {"RETRY", "FAILURE"} => tasks[t].reported = Event(0, "failed")
        /\ tasks[t].reported \in {Event(100, "completed"), Event(0, "failed")} => Ended(t)

C15_Witness ==
    /\ \E t \in DOMAIN tasks : tasks[t].state = "SUCCESS"
    /\ worker = IdleWorker

\* C16: whenever no attempt is running, the worker's temp file does not exist:
\* every way an attempt ends (success, retry, giving up, another error) has
\* removed it.
C16_TempFileReleased ==
    worker.pc = "idle" => ~temp_file

C16_Witness ==
    /\ worker.pc = "idle"
    /\ ~temp_file
    /\ \E t \in DOMAIN tasks : tasks[t].state = "RETRY" /\ tasks[t].reported = Event(0, "failed")
    /\ \E e \in EpisodeIds : files[e] > 0

\* C17: no episode row refers to a feed that has no row, and a step that
\* removes a feed row or an episode row removes one feed together with exactly
\* the episodes of that feed and answers 200: a delete_feed that fails removes
\* nothing.
EpisodesOf(f) == {e \in DOMAIN episodes : episodes[e].feed_id = f}

C17_CascadeAtomic ==
    [][/\ \A e \in DOMAIN episodes' : episodes'[e].feed_id \in feeds'
       /\ (feeds' # feeds \/ DOMAIN episodes' # DOMAIN episodes)
            => \E f \in feeds :
                 /\ feeds' = feeds \ {f}
                 /\ DOMAIN episodes' = DOMAIN episodes \ EpisodesOf(f)
                 /\ response' = 200]_vars

C17_Witness ==
    /\ feeds = {}
    /\ DOMAIN episodes = {}
    /\ response = 200
    /\ tasks # <<>>

\* C18: for a feed that exists, every document get_feed_rss can return has
\* exactly one item for each episode of the feed that is CLEANED and has
\* local_filename set, no other item, and its items in order of created_at,
\* newest first; for a feed that does not exist the response is 404.
Published(f) ==
    {e \in DOMAIN episodes :
        /\ episodes[e].feed_id = f
        /\ episodes[e].status = "CLEANED"
        /\ episodes[e].local_filename # None}

C18_RssExactlyCleaned ==
    \A f \in RssFeedIds : \A doc \in get_feed_rss(f) :
        IF f \in feeds
        THEN /\ doc.code = 200
             /\ {doc.items[i] : i \in DOMAIN doc.items} = Published(f)
             /\ Len(doc.items) = Cardinality(Published(f))
             /\ \A i, j \in DOMAIN doc.items : i < j =>
                   episodes[doc.items[i]].created_at >= episodes[doc.items[j]].created_at
        ELSE doc.code = 404 /\ doc.items = <<>>

C18_Witness ==
    /\ response = 200
    /\ \E f \in feeds : \E doc \in get_feed_rss(f) :
         /\ Len(doc.items) = 2
         /\ episodes[doc.items[1]].created_at > episodes[doc.items[2]].created_at
         /\ \E e \in DOMAIN episodes :
              episodes[e].feed_id = f /\ episodes[e].status = "QUEUED" /\ HasArtifact(e)

\* C19: a step that records a progress event, whatever its episode id, value
\* and stage, changes no row of feeds or episodes and no artifact file.
C19_ProgressIsTelemetry ==
    [][last_event' # last_event
          => /\ episodes' = episodes
             /\ feeds' = feeds
             /\ files' = files]_vars

C19_Witness ==
    \E e \in DOMAIN episodes :
        /\ last_event[e] = Event(100, "completed")
        /\ completed[e] = 0
        /\ episodes[e].status = "DISCOVERED"
        /\ episodes[e].local_filename = None

\* C20: ignore_episodes sets IGNORED exactly on the episodes of its request
\* that are DISCOVERED or FAILED, unignore_episodes sets DISCOVERED exactly on
\* those that are IGNORED, neither changes another status, and list_episodes
\* answers with a list that has an IGNORED episode only when show_ignored is
\* set or the status filter asks for it.
Named(ids) == {ids[i] : i \in DOMAIN ids}

C20_IgnoreUnignore ==
    [][/\ \A ids \in IdLists :
            ignore_episodes(ids)
               => /\ DOMAIN episodes' = DOMAIN episodes
                  /\ \A e \in DOMAIN episodes :
                       episodes'[e].status =
                          IF e \in Named(ids) /\ episodes[e].status \in {"DISCOVERED", "FAILED"}
                          THEN "IGNORED" ELSE episodes[e].status
       /\ \A ids \in IdLists :
            unignore_episodes(ids)
               => /\ DOMAIN episodes' = DOMAIN episodes
                  /\ response' = 200
                  /\ \A e \in DOMAIN episodes :
                       episodes'[e].status =
                          IF e \in Named(ids) /\ episodes[e].status = "IGNORED"
                          THEN "DISCOVERED" ELSE episodes[e].status
       /\ \A show_ignored \in BOOLEAN :
            ListRequest(NoStatus, show_ignored)
               => /\ response' = 200
                  /\ \A e \in list_episodes(NoStatus, show_ignored).items :
                       episodes[e].status = "IGNORED" => show_ignored]_vars


\* C22: CLEANED is absorbing.  Once the committed status of an episode is
\* CLEANED, no step of any request changes it to another status; the row can
\* only disappear with its feed.  This includes the commit of a queue_episodes
\* request that read the episode as DISCOVERED before the upload callback
\* committed CLEANED.
C22_CleanedAbsorbing ==
    [][\A e \in DOMAIN episodes :
          episodes[e].status = "CLEANED" /\ e \in DOMAIN episodes'
             => episodes'[e].status = "CLEANED"]_vars


\* queue_episodes alone, with requests that overlap: each request has its own
\* session (get_db_session), and the sessions of MaxOverlap requests are open
\* at once over the episodes of Init, all DISCOVERED.
InitQueue ==
    /\ MANAGER_BASE_URL = <<"api">>
    /\ passes = [p \in Passes |-> IdlePass]
    /\ feeds = {FeedId}
    /\ episodes = [e \in EpisodeIds |-> NewEpisode(e, 0)]
    /\ rowlock = [e \in EpisodeIds |-> 0]
    /\ clock = 0
    /\ qs = [q \in 1..MaxOverlap |-> IdleSession]
    /\ channel = {}
    /\ tasks = <<>>
    /\ worker = IdleWorker
    /\ temp_file = FALSE
    /\ upl = [u \in Uploads |-> IdleUpload]
    /\ files = [e \in EpisodeIds |-> 0]
    /\ last_event = [e \in EpisodeIds |-> NoEvent]
    /\ completed = [e \in EpisodeIds |-> 0]
    /\ response = 0
    /\ active_connections = {}
    /\ bc = IdleBroadcast

NextQueue ==
    \/ Tick
    \/ \E q \in 1..MaxOverlap, ids \in IdLists : QueueStart(q, ids)
    \/ \E q \in 1..MaxOverlap : QueueStep(q)
    \/ \E q \in 1..MaxOverlap : QueueCommit(q)

SpecQueue == InitQueue /\ [][NextQueue]_vars

\* The work messages dispatched for episode e.
MessagesFor(e) == {t \in DOMAIN tasks : tasks[t].episode_id = e}

\* C23: at most one work message is dispatched per entry of an episode into
\* QUEUED.  Under SpecQueue an episode enters QUEUED at most once (nothing takes
\* it out of QUEUED), so whether requests naming it overlap or one request
\* names it twice, at most one message for it is ever dispatched.
C23_OneMessagePerEntry == \A e \in EpisodeIds : Cardinality(MessagesFor(e)) <= 1

\* A request that names the same id twice dispatches for it once: the second
\* iteration gets the session's own object, already QUEUED (main.py 504-506).
C23_NamedTwice ==
    [][\A q \in 1..MaxOverlap :
          QueueStep(q) /\ Head(qs[q].ids) \in DOMAIN qs[q].cache => tasks' = tasks]_vars


\* C24: commit before notify.  Whenever a 100% "completed" event for an episode
\* is delivered, by upload_cleaned_audio's broadcast or by the worker's report
\* after its upload returned, the committed status of the episode is CLEANED
\* and its local_filename is set (an episode deleted with its feed in between
\* has no committed state and is not counted).
CompletedBy(e) ==
    \/ \E u \in Uploads : UploadBroadcast(u) /\ upl[u].episode_id = e /\ completed'[e] # completed[e]
    \/ WorkerResponse /\ worker.code < 400 /\ worker.task.episode_id = e

C24_CommitBeforeNotify ==
    [][\A e \in EpisodeIds :
          CompletedBy(e) /\ Exists(e)
             => episodes[e].status = "CLEANED" /\ episodes[e].local_filename # None]_vars

\* The order inside one request is the claimed one: the broadcast of
\* upload_cleaned_audio follows the commit of its own UPDATE, whose row then
\* has a local_filename.
C24_BroadcastAfterOwnCommit ==
    [][\A u \in Uploads :
          UploadBroadcast(u) /\ Exists(upl[u].episode_id)
             => episodes[upl[u].episode_id].local_filename # None]_vars

====
